---- MODULE Spec2Model ----
(***************************************************************************)
(* Model of scraper.py: the page fetcher (get_page_content), the listing   *)
(* extractor (extract_business_from_article), the pagination loop          *)
(* (scrape_all_pages) and the CSV writer (save_to_csv) as called by main.  *)
(*                                                                         *)
(* Text is a sequence of characters.  A parsed page is the sequence of its *)
(* <article> nodes in document order; an article is the sequence of its    *)
(* heading nodes and the sequence of its <p> nodes, both in document order.*)
(***************************************************************************)
EXTENDS Integers, Sequences, FiniteSets, TLC

VARIABLES
    pc,                \* main: "scrape" (in the while loop), "save", "done", "crashed"
    businesses,        \* scrape_all_pages: list of {'Name', 'Address'} dicts
    page,              \* scrape_all_pages: page counter
    empty_page_count,  \* scrape_all_pages: consecutive pages without <article>
    fetched,           \* history: one record per get_page_content call of the run
    csvfile,           \* rows of businesses.csv on disk, or NoFile
    csv_before,        \* history: what was on disk when the run started
    stdout,            \* last line printed by save_to_csv ("" before it runs)
    x_article,         \* extractor harness: the article passed in
    x_result,          \* extractor harness: Pending or the value returned
    f_call,            \* fetcher harness: the latest call (arguments and outcome)
    f_prev             \* fetcher harness: the call before it

vars == <<pc, businesses, page, empty_page_count, fetched, csvfile, csv_before,
          stdout, x_article, x_result, f_call, f_prev>>

driverVars == <<pc, businesses, page, empty_page_count, fetched, csvfile,
                csv_before, stdout>>
extractVars == <<x_article, x_result>>
fetchVars == <<f_call, f_prev>>

---------------------------------------------------------------------------
(* Bounds of the model                                                     *)

MaxTextLen == 3      \* longest paragraph text explored character by character
MaxNameLen == 2      \* longest heading / link text explored character by character
MaxParas == 2        \* most <p> nodes in one article
MaxPages == 3        \* pages the pagination loop is followed for
MaxPageNumber == 11  \* largest page number passed to get_page_content alone

---------------------------------------------------------------------------
(* Python values                                                           *)

None == [type |-> "None"]
Pending == [type |-> "pending"]
\* title_element.find('a'): no <a> inside the heading, or the <a> with its text
NoLink == [found |-> FALSE, text |-> <<>>]
Link(text) == [found |-> TRUE, text |-> text]
\* the output file: absent, or present with its rows
NoFile == [exists |-> FALSE, rows |-> <<>>]
File(rows) == [exists |-> TRUE, rows |-> rows]

Chars == {"a", "b", " ", "\n"}
Whitespace == {" ", "\n"}

RECURSIVE TextsUpTo(_)
TextsUpTo(n) ==
    IF n = 0 THEN {<<>>}
    ELSE LET shorter == TextsUpTo(n - 1)
         IN shorter \cup {Append(t, c) : t \in {s \in shorter : Len(s) = n - 1},
                                         c \in Chars}

\* str.lstrip(): drop leading whitespace
RECURSIVE lstrip(_)
lstrip(s) ==
    IF s = <<>> THEN <<>>
    ELSE IF Head(s) \in Whitespace THEN lstrip(Tail(s))
    ELSE s

\* str.rstrip(): drop trailing whitespace
RECURSIVE rstrip(_)
rstrip(s) ==
    IF s = <<>> THEN <<>>
    ELSE IF s[Len(s)] \in Whitespace THEN rstrip(SubSeq(s, 1, Len(s) - 1))
    ELSE s

\* str.strip()
strip(s) == rstrip(lstrip(s))

\* s.split('\n')[0]: the text before the first line break
RECURSIVE first_split(_)
first_split(s) ==
    IF s = <<>> THEN <<>>
    ELSE IF Head(s) = "\n" THEN <<>>
    ELSE <<Head(s)>> \o first_split(Tail(s))

---------------------------------------------------------------------------
(* extract_business_from_article                                           *)

HeadingTags == {"h2", "h3"}
AddressMarkers == {"textof", "entry-content", "entry-summary"}

\* article.find(['h2', 'h3']): first matching heading in document order
RECURSIVE find_heading(_)
find_heading(headings) ==
    IF headings = <<>> THEN None
    ELSE IF Head(headings).tag \in HeadingTags THEN Head(headings)
    ELSE find_heading(Tail(headings))

\* Faulty variant: the heading's own text is used even when it holds a link.
business_name_ignores_link(title_element) == strip(title_element.text)

\* title_link.text.strip() if title_link else title_element.text.strip()
business_name_of(title_element) ==
    IF title_element.link.found
    THEN strip(title_element.link.text)
    ELSE strip(title_element.text)

\* the test on p.parent: one of the three classes is in parent.get('class', [])
parent_accepted(p) == \E marker \in AddressMarkers : marker \in p.parent_class

\* Faulty variant: no break, so the last usable paragraph wins.
RECURSIVE scan_without_break(_)
scan_without_break(p_elements) ==
    IF p_elements = <<>> THEN <<>>
    ELSE LET p == Head(p_elements)
             text == strip(p.text)
             first_line == strip(first_split(text))
             later == scan_without_break(Tail(p_elements))
         IN IF later # <<>> THEN later
            ELSE IF parent_accepted(p) /\ text # <<>> /\ first_line # <<>>
                 THEN first_line
                 ELSE <<>>

\* the for loop over article.find_all('p'): the value of address after it
RECURSIVE scan_paragraphs(_)
scan_paragraphs(p_elements) ==
    IF p_elements = <<>> THEN <<>>
    ELSE LET p == Head(p_elements)
             text == strip(p.text)
             first_line == strip(first_split(text))
         IN IF parent_accepted(p) /\ text # <<>> /\ first_line # <<>>
            THEN first_line
            ELSE scan_paragraphs(Tail(p_elements))

extract_business_from_article(article) ==
    LET title_element == find_heading(article.headings)
    IN IF title_element = None THEN None
       ELSE LET business_name == business_name_of(title_element)
            IN IF business_name = <<>> THEN None
               ELSE [Name |-> business_name,
                     Address |-> scan_paragraphs(article.paragraphs)]

---------------------------------------------------------------------------
(* get_page_content                                                        *)

base_url == "https://redsevillasingluten.org/category/establecimientos-de-la-red/"

Digit == <<"0", "1", "2", "3", "4", "5", "6", "7", "8", "9">>

\* {page_number} inside the f-string: the decimal digits of the integer
RECURSIVE format_int(_)
format_int(n) ==
    IF n < 10 THEN Digit[n + 1]
    ELSE format_int(n \div 10) \o Digit[(n % 10) + 1]

\* Faulty variant: page 1 is not special-cased.
get_url_always_paged(page_number) ==
    base_url \o "page/" \o format_int(page_number) \o "/"

\* the URL built from the page number
get_url(page_number) ==
    IF page_number = 1
    THEN base_url
    ELSE base_url \o "page/" \o format_int(page_number) \o "/"

\* What requests.get(url, headers=headers) does: it hands back a response with
\* a status code and a body, or raises.  The body is given as the <article>
\* nodes its markup parses to.
Response(status, content) ==
    [kind |-> "response", status_code |-> status, content |-> content, exc |-> ""]
Raises(exc) ==
    [kind |-> "raises", status_code |-> 0, content |-> <<>>, exc |-> exc]

\* requests.exceptions: the classes derived from RequestException
RequestExceptionClasses ==
    {"RequestException", "HTTPError", "ConnectionError", "Timeout",
     "TooManyRedirects"}

\* response.raise_for_status(): HTTPError for a 4xx or 5xx status, else nothing
raise_for_status(response) ==
    IF 400 <= response.status_code /\ response.status_code < 600
    THEN "HTTPError"
    ELSE ""

\* Faulty variant: the handler is written for HTTPError alone.
except_clause_catches_http_only(exc) == exc = "HTTPError"

\* except requests.RequestException as e
except_clause_catches(exc) == exc \in RequestExceptionClasses

\* BeautifulSoup(response.content, 'html.parser')
Soup(content) == [type |-> "soup", articles |-> content]

\* The call as a whole: the URL requested, the value returned, and the
\* exception that leaves the function ("" when it returns normally).
get_page_content(page_number, response) ==
    LET url == get_url(page_number)
        \* the exception raised inside the try block, "" when none is
        raised_in_try ==
            IF response.kind = "raises" THEN response.exc
            ELSE IF response.status_code = 404 THEN ""
            ELSE raise_for_status(response)
        try_value ==
            IF response.status_code = 404 THEN None ELSE Soup(response.content)
    IN IF raised_in_try = ""
       THEN [url |-> url, value |-> try_value, propagates |-> ""]
       ELSE IF except_clause_catches(raised_in_try)
            THEN [url |-> url, value |-> None, propagates |-> ""]
            ELSE [url |-> url, value |-> None, propagates |-> raised_in_try]

---------------------------------------------------------------------------
(* scrape_all_pages                                                        *)

max_empty_pages == 2

\* Faulty variant: a listing already in the list is not appended again.
RECURSIVE append_extracted_deduplicating(_, _)
append_extracted_deduplicating(list, articles) ==
    IF articles = <<>> THEN list
    ELSE LET business_data == extract_business_from_article(Head(articles))
         IN append_extracted_deduplicating(
                IF business_data # None
                   /\ \A i \in DOMAIN list : list[i] # business_data
                THEN Append(list, business_data)
                ELSE list,
                Tail(articles))

\* for article in articles: append what extraction returns unless it is None
RECURSIVE append_extracted(_, _)
append_extracted(list, articles) ==
    IF articles = <<>> THEN list
    ELSE LET business_data == extract_business_from_article(Head(articles))
         IN append_extracted(
                IF business_data # None THEN Append(list, business_data) ELSE list,
                Tail(articles))

\* Faulty variant: a page counts as empty when nothing was extracted from it.
no_articles_by_extraction(articles) == append_extracted(<<>>, articles) = <<>>

\* if not articles
no_articles(articles) == articles = <<>>

\* Faulty variant: the comparison is strict.
empty_limit_reached_strict(count) == count > max_empty_pages

\* if empty_page_count >= max_empty_pages
empty_limit_reached(count) == count >= max_empty_pages

\* Faulty variant: the counter advances by two.
next_page_skipping(p) == p + 2

\* page += 1
next_page(p) == p + 1

\* The loop body once the page was fetched and parsed: the run state after it.
loop_body_on_document(run, soup) ==
    LET articles == soup.articles    \* soup.find_all('article')
    IN IF no_articles(articles)
       THEN LET count == run.empty_page_count + 1
            IN IF empty_limit_reached(count)
               THEN [run EXCEPT !.empty_page_count = count, !.stopped = TRUE]
               ELSE [run EXCEPT !.empty_page_count = count,
                                !.page = next_page(run.page)]
       ELSE [run EXCEPT !.empty_page_count = 0,
                        !.businesses = append_extracted(run.businesses, articles),
                        !.page = next_page(run.page)]

\* Faulty variant: a page that could not be fetched is treated as a page
\* without articles.
loop_body_none_as_empty(run, soup) ==
    loop_body_on_document(run, IF soup = None THEN Soup(<<>>) ELSE soup)

\* One pass of the while loop, given what get_page_content returned.
loop_body(run, soup) ==
    IF soup = None
    THEN [run EXCEPT !.stopped = TRUE]
    ELSE loop_body_on_document(run, soup)

---------------------------------------------------------------------------
(* save_to_csv                                                             *)

fieldnames == << <<"N", "a", "m", "e">>, <<"A", "d", "d", "r", "e", "s", "s">> >>

\* writer.writerow(business): the values in the order of fieldnames
csv_row(business) == <<business.Name, business.Address>>

\* Faulty variant: the file is opened and the header written before the list
\* is looked at.
save_to_csv_header_first(list, file) ==
    [file |-> File(<<fieldnames>> \o [i \in DOMAIN list |-> csv_row(list[i])]),
     printed |-> IF list = <<>> THEN "No businesses to save" ELSE "Saved"]

\* The file after the call and the line printed by it.
save_to_csv(list, file) ==
    IF list = <<>>
    THEN [file |-> file, printed |-> "No businesses to save"]
    ELSE [file |-> File(<<fieldnames>> \o [i \in DOMAIN list |-> csv_row(list[i])]),
          printed |-> "Saved"]

---------------------------------------------------------------------------
(* Inputs of the extractor harness                                         *)

RECURSIVE SeqsUpTo(_, _)
SeqsUpTo(S, n) ==
    IF n = 0 THEN {<<>>}
    ELSE LET shorter == SeqsUpTo(S, n - 1)
         IN shorter \cup {Append(q, e) : q \in {s \in shorter : Len(s) = n - 1},
                                         e \in S}

ParentClasses == {{}, {"textof"}, {"entry-content"}, {"entry-summary"},
                  {"mask"}, {"mask", "entry-summary"}}
ShortTexts == {<<>>} \cup {<<c>> : c \in Chars}

Heading(tag, link, text) == [tag |-> tag, link |-> link, text |-> text]
Paragraph(cls, text) == [parent_class |-> cls, text |-> text]
Article(hs, ps) == [headings |-> hs, paragraphs |-> ps]

PlainHeading == Heading("h2", NoLink, <<"a">>)

\* one <p>, every text up to MaxTextLen, under every parent
OneParagraphArticles ==
    {Article(<<PlainHeading>>, <<Paragraph(cls, t)>>) :
        cls \in ParentClasses, t \in TextsUpTo(MaxTextLen)}

\* up to MaxParas <p> nodes with short texts, under every parent
ManyParagraphArticles ==
    {Article(<<PlainHeading>>, ps) :
        ps \in SeqsUpTo({Paragraph(cls, t) : cls \in ParentClasses,
                                             t \in ShortTexts}, MaxParas)}

\* one heading node of any rank, every link and heading text up to MaxNameLen
OneHeadingArticles ==
    {Article(<<Heading(tag, link, text)>>,
             <<Paragraph({"textof"}, <<"b">>)>>) :
        tag \in {"h1", "h2", "h3"},
        link \in {NoLink} \cup {Link(t) : t \in TextsUpTo(MaxNameLen)},
        text \in TextsUpTo(MaxNameLen)}

\* no heading node, or two of them with short texts
FewHeadingArticles ==
    LET hs == {Heading(tag, link, text) :
                  tag \in {"h1", "h2", "h3"},
                  link \in {NoLink, Link(<<>>), Link(<<"a">>)},
                  text \in {<<" ">>, <<"b">>}}
    IN {Article(<<>>, <<>>)} \cup {Article(<<h1, h2>>, <<>>) : h1 \in hs, h2 \in hs}

ExtractInputs == OneParagraphArticles \cup ManyParagraphArticles
                 \cup OneHeadingArticles \cup FewHeadingArticles

DriverIdle ==
    /\ pc = "done"
    /\ businesses = <<>>
    /\ page = 1
    /\ empty_page_count = 0
    /\ fetched = <<>>
    /\ csvfile = NoFile
    /\ csv_before = NoFile
    /\ stdout = ""

ExtractIdle ==
    /\ x_article = Article(<<>>, <<>>)
    /\ x_result = Pending

FetchIdle ==
    /\ f_call = Pending
    /\ f_prev = Pending

ExtractInit ==
    /\ DriverIdle
    /\ FetchIdle
    /\ x_article \in ExtractInputs
    /\ x_result = Pending

ExtractCall ==
    /\ x_result = Pending
    /\ x_result' = extract_business_from_article(x_article)
    /\ UNCHANGED <<x_article, driverVars, fetchVars>>

ExtractNext == ExtractCall

ExtractSpec == ExtractInit /\ [][ExtractNext]_vars

---------------------------------------------------------------------------
(* main: scrape_all_pages, then save_to_csv                                *)

NoHeadingArticle == Article(<<>>, <<Paragraph({"textof"}, <<"b">>)>>)
ArticleA ==
    Article(<<Heading("h2", Link(<<"a">>), <<"a">>)>>,
            <<Paragraph({"textof"}, <<"b">>)>>)
ArticleB == Article(<<Heading("h3", NoLink, <<"b">>)>>, <<>>)

\* what a fetched page may hold
PageContents ==
    {<<>>, <<NoHeadingArticle>>, <<ArticleA>>, <<ArticleA, ArticleB>>,
     <<ArticleB, ArticleA>>, <<ArticleA, NoHeadingArticle, ArticleB>>,
     <<ArticleA, ArticleA>>}

\* what the request for a page may come to
PageResponses ==
    {Response(200, content) : content \in PageContents}
    \cup {Response(304, <<>>), Response(404, <<>>), Response(500, <<>>),
          Raises("ConnectionError")}

StaleFile == File(<<fieldnames, <<<<"b">>, <<>>>> >>)

Init ==
    /\ ExtractIdle
    /\ FetchIdle
    /\ pc = "scrape"
    /\ businesses = <<>>
    /\ page = 1
    /\ empty_page_count = 0
    /\ fetched = <<>>
    /\ csvfile \in {NoFile, StaleFile}
    /\ csv_before = csvfile
    /\ stdout = ""

\* One iteration of the while loop of scrape_all_pages: the fetch, the break
\* tests, the extraction, the increment.  The loop is followed for MaxPages
\* pages.
ScrapeIteration ==
    /\ pc = "scrape"
    /\ page <= MaxPages
    /\ \E response \in PageResponses :
          LET out == get_page_content(page, response)
              run == [businesses |-> businesses, page |-> page,
                      empty_page_count |-> empty_page_count, stopped |-> FALSE]
              after == loop_body(run, out.value)
          IN /\ fetched' = Append(fetched, [page |-> page, url |-> out.url,
                                            value |-> out.value])
             /\ IF out.propagates # ""
                THEN /\ pc' = "crashed"
                     /\ UNCHANGED <<businesses, page, empty_page_count>>
                ELSE /\ businesses' = after.businesses
                     /\ page' = after.page
                     /\ empty_page_count' = after.empty_page_count
                     /\ pc' = IF after.stopped THEN "save" ELSE "scrape"
    /\ UNCHANGED <<csvfile, csv_before, stdout, extractVars, fetchVars>>

\* main after scrape_all_pages returned: save_to_csv(businesses)
SaveToCsv ==
    /\ pc = "save"
    /\ LET out == save_to_csv(businesses, csvfile)
       IN /\ csvfile' = out.file
          /\ stdout' = out.printed
    /\ pc' = "done"
    /\ UNCHANGED <<businesses, page, empty_page_count, fetched, csv_before,
                   extractVars, fetchVars>>

Next == ScrapeIteration \/ SaveToCsv

Spec == Init /\ [][Next]_vars

---------------------------------------------------------------------------
(* The fetcher harness: get_page_content called with any page number and   *)
(* any outcome of the request, remembering the call before.                *)

StatusCodes == {200, 201, 204, 299, 300, 301, 304, 399,
                400, 403, 404, 410, 499, 500, 503, 599}
TransportFailures == {"ConnectionError", "Timeout", "TooManyRedirects"}

FetchBodies == {<<>>, <<ArticleA>>}

FetchResponses ==
    {Response(st, body) : st \in StatusCodes, body \in FetchBodies}
    \cup {Raises(exc) : exc \in TransportFailures}

FetchInit ==
    /\ DriverIdle
    /\ ExtractIdle
    /\ f_call = Pending
    /\ f_prev = Pending

FetchCall ==
    \E page_number \in 1..MaxPageNumber, response \in FetchResponses :
        LET out == get_page_content(page_number, response)
        IN /\ f_call' = [type |-> "call", page_number |-> page_number,
                         response |-> response, url |-> out.url,
                         value |-> out.value, propagates |-> out.propagates]
           /\ f_prev' = IF f_call = Pending THEN Pending
                        ELSE [type |-> "call", page_number |-> f_call.page_number,
                              url |-> f_call.url]
           /\ UNCHANGED <<driverVars, extractVars>>

FetchNext == FetchCall

FetchSpec == FetchInit /\ [][FetchNext]_vars

---------------------------------------------------------------------------
(* Properties of extract_business_from_article                             *)

Min(S) == CHOOSE m \in S : \A n \in S : m <= n
Returned == x_result # Pending
IsListing(r) == r # Pending /\ r # None

MarkedParagraphs(ps) ==
    {i \in DOMAIN ps :
        ps[i].parent_class \cap {"textof", "entry-content", "entry-summary"} # {}}
UsableParagraphs(ps) ==
    {i \in MarkedParagraphs(ps) : strip(ps[i].text) # <<>>}
TrimmedFirstLine(text) == strip(first_split(strip(text)))

\* C5 as stated: the address comes from the first paragraph whose parent
\* carries one of the three markers, and is "" when there is none.
C5_Original ==
    IsListing(x_result) =>
        LET ps == x_article.paragraphs
            marked == MarkedParagraphs(ps)
        IN x_result.Address =
              IF marked = {} THEN <<>> ELSE TrimmedFirstLine(ps[Min(marked)].text)

\* C5 (amended): the address is the trimmed first line of the trimmed text of
\* the first paragraph, in document order, whose parent carries one of the
\* three markers and whose text is not blank; marked paragraphs
\* with blank text are passed over, no later paragraph contributes, and when
\* there is no such paragraph the address is "" and the listing is still
\* returned (the paragraphs never decide between a listing and None).
C5_AddressFromFirstUsableParagraph ==
    /\ IsListing(x_result) =>
          LET ps == x_article.paragraphs
              usable == UsableParagraphs(ps)
          IN x_result.Address =
                IF usable = {} THEN <<>>
                ELSE TrimmedFirstLine(ps[Min(usable)].text)
    /\ (Returned /\ x_result = None) =>
          \A ps \in {<<>>, <<Paragraph({"textof"}, <<"a">>)>>} :
              extract_business_from_article(Article(x_article.headings, ps)) = None

\* C5 witness: a blank paragraph under a marker is followed by a usable one,
\* and the address is the later paragraph's line.
C5_Witness ==
    /\ IsListing(x_result)
    /\ Len(x_article.paragraphs) = 2
    /\ MarkedParagraphs(x_article.paragraphs) = {1, 2}
    /\ UsableParagraphs(x_article.paragraphs) = {2}
    /\ x_result.Address = <<"a">>

\* C6: None is returned exactly when the article has no h2/h3 heading or the
\* trimmed name is empty; otherwise the name is the trimmed text of the link
\* in the first h2/h3 heading when it has one, and the heading's trimmed text
\* when it has none; a returned listing never has an empty name.
C6_NameFromFirstHeading ==
    Returned =>
        LET hs == x_article.headings
            ranked == {i \in DOMAIN hs : hs[i].tag \in {"h2", "h3"}}
        IN IF ranked = {} THEN x_result = None
           ELSE LET h == hs[Min(ranked)]
                    name == IF h.link.found THEN strip(h.link.text)
                            ELSE strip(h.text)
                IN IF name = <<>> THEN x_result = None
                   ELSE /\ x_result # None
                        /\ x_result.Name = name
                        /\ x_result.Name # <<>>

\* C6 witness: the heading holds a link whose text differs from the heading's
\* own, and the link's trimmed text is the name.
C6_Witness ==
    /\ IsListing(x_result)
    /\ Len(x_article.headings) = 1
    /\ x_article.headings[1].link.found
    /\ strip(x_article.headings[1].text) # <<>>
    /\ strip(x_article.headings[1].text) # strip(x_article.headings[1].link.text)
    /\ x_article.headings[1].link.text # x_result.Name
    /\ x_result.Name = strip(x_article.headings[1].link.text)


---------------------------------------------------------------------------
(* Properties of get_page_content                                          *)

Called == f_call # Pending
ReturnedDocument == f_call.propagates = "" /\ f_call.value # None
ReturnedNone == f_call.propagates = "" /\ f_call.value = None

\* C4 as stated: None for 404, for every other non-2xx status and for every
\* transport failure; a document only for a 2xx status; nothing is raised.
C4_Original ==
    Called =>
        /\ f_call.propagates = ""
        /\ ReturnedDocument <=>
              /\ f_call.response.kind = "response"
              /\ f_call.response.status_code \in 200..299

\* C4 (amended): None is returned for status 404, for every other status from
\* 400 to 599 and for every transport-level failure; the parsed document is
\* returned for every other status, which is every 2xx status and also a 3xx
\* status that the HTTP client hands back; no outcome raises to the caller.
C4_NoneOnErrorStatusOrFailure ==
    Called =>
        /\ f_call.propagates = ""
        /\ f_call.response.kind = "raises" => ReturnedNone
        /\ (f_call.response.kind = "response"
              /\ f_call.response.status_code \in 400..599) => ReturnedNone
        /\ (f_call.response.kind = "response"
              /\ f_call.response.status_code \notin 400..599) =>
                 /\ ReturnedDocument
                 /\ f_call.value.articles = f_call.response.content

\* C4 witness: a 300 answer with a body comes back as a parsed document.
C4_Witness ==
    /\ Called
    /\ f_call.response.kind = "response"
    /\ f_call.response.status_code = 300
    /\ ReturnedDocument
    /\ f_call.value.articles # <<>>

\* C8: page 1 is requested at the bare category URL, page N > 1 at
\* base_url + "page/" + N + "/", and two calls with different page numbers
\* request different URLs.
C8_UrlOfPage ==
    Called =>
        /\ f_call.page_number = 1 =>
              f_call.url =
                "https://redsevillasingluten.org/category/establecimientos-de-la-red/"
        /\ f_call.page_number > 1 =>
              f_call.url =
                "https://redsevillasingluten.org/category/establecimientos-de-la-red/"
                \o "page/" \o ToString(f_call.page_number) \o "/"
        /\ (f_prev # Pending /\ f_prev.page_number # f_call.page_number) =>
              f_prev.url # f_call.url

\* C8 witness: page 1 and then a page with a two-digit number were requested.
C8_Witness ==
    /\ Called
    /\ f_prev # Pending
    /\ f_prev.page_number = 1
    /\ f_call.page_number >= 10
    /\ f_call.url # f_prev.url

---------------------------------------------------------------------------
(* Properties of scrape_all_pages and save_to_csv                          *)

Stopped == pc \in {"save", "done"}
IsDocument(f) == f.value # None
IsAbsent(f) == f.value = None
EmptyDocument(f) == IsDocument(f) /\ f.value.articles = <<>>
DocumentWithArticles(f) == IsDocument(f) /\ f.value.articles # <<>>

\* the successful extractions of one page, in document order
NotNone(r) == r # None
ListingsOfPage(f) ==
    IF IsAbsent(f) THEN <<>>
    ELSE SelectSeq([i \in DOMAIN f.value.articles |->
                       extract_business_from_article(f.value.articles[i])],
                   NotNone)

\* the concatenation of ListingsOfPage over the first n fetches
RECURSIVE ListingsUpTo(_)
ListingsUpTo(n) ==
    IF n = 0 THEN <<>> ELSE ListingsUpTo(n - 1) \o ListingsOfPage(fetched[n])

\* C1: once two pages fetched one after the other both parsed and both held
\* no article, the run has stopped and the second of them is the last page
\* ever fetched.
C1_StopsAfterTwoEmptyPages ==
    \A i \in 1..(Len(fetched) - 1) :
        (EmptyDocument(fetched[i]) /\ EmptyDocument(fetched[i + 1])) =>
            /\ Stopped
            /\ Len(fetched) = i + 1

\* C1 witness: pages 1 and 2 were empty documents and the run stopped there,
\* short of the number of pages the loop is followed for.
C1_Witness ==
    /\ Len(fetched) = 2
    /\ EmptyDocument(fetched[1])
    /\ EmptyDocument(fetched[2])
    /\ Stopped
    /\ Len(fetched) < MaxPages

\* C2: a fetch that returned None is the last fetch of the run: the run has
\* stopped, the page counter still names that page, and the list holds what
\* the pages before it gave, whatever the empty-page counter was.
C2_StopsOnAbsent ==
    \A i \in DOMAIN fetched :
        IsAbsent(fetched[i]) =>
            /\ Stopped
            /\ i = Len(fetched)
            /\ page = fetched[i].page
            /\ businesses = ListingsUpTo(i - 1)

\* C2 witness: page 1 gave listings, page 2 was an empty document, so the
\* counter was 1 when page 3 came back as None and the run stopped.
C2_Witness ==
    /\ Len(fetched) = 3
    /\ DocumentWithArticles(fetched[1])
    /\ EmptyDocument(fetched[2])
    /\ IsAbsent(fetched[3])
    /\ empty_page_count = 1
    /\ businesses # <<>>
    /\ Stopped

\* C3: at every point of the run, and so in the value returned, the list is
\* the concatenation over the fetched pages, in page order, of the successful
\* extractions of each page's articles in document order.
C3_ListIsConcatenationOfExtractions ==
    businesses = ListingsUpTo(Len(fetched))

\* C3 witness: the run has ended with a list that keeps a duplicate, spans
\* two pages and passed over a failed extraction.
C3_Witness ==
    /\ pc = "done"
    /\ Len(fetched) = 3
    /\ fetched[1].value # None
    /\ fetched[1].value.articles = <<ArticleA, NoHeadingArticle, ArticleB>>
    /\ fetched[2].value # None
    /\ fetched[2].value.articles = <<ArticleB, ArticleA>>
    /\ Len(businesses) = 4
    /\ businesses[1] = businesses[4]
    /\ businesses[2] = businesses[3]
    /\ businesses[1] # businesses[2]

\* C7: when main is done, an empty list left the file as it was before the
\* run and printed the nothing-to-save line; a list of N >= 1 listings left a
\* file of N + 1 rows, the header (Name, Address) and then one row per listing
\* in the order of the list.  The file is not touched before that.
C7_CsvRows ==
    /\ pc # "done" => csvfile = csv_before
    /\ (pc = "done" /\ businesses = <<>>) =>
          /\ csvfile = csv_before
          /\ stdout = "No businesses to save"
    /\ (pc = "done" /\ businesses # <<>>) =>
          /\ csvfile.exists
          /\ Len(csvfile.rows) = Len(businesses) + 1
          /\ csvfile.rows[1] =
                << <<"N", "a", "m", "e">>, <<"A", "d", "d", "r", "e", "s", "s">> >>
          /\ \A i \in DOMAIN businesses :
                csvfile.rows[i + 1] = <<businesses[i].Name, businesses[i].Address>>

\* C7 witness: a file from an earlier run was replaced by the header and the
\* rows of a list of several different listings.
C7_Witness ==
    /\ pc = "done"
    /\ csv_before.exists
    /\ Len(businesses) >= 3
    /\ businesses[1] # businesses[2]
    /\ Len(csvfile.rows) = Len(businesses) + 1
    /\ csvfile # csv_before

\* C9: the counter is 0, 1 or 2 and below 2 while the loop goes on; after a
\* page that held article nodes it is 0 and the loop goes on, even when no
\* listing came out of that page; after one empty page that follows a page
\* with article nodes (or opens the run) it is 1 and the loop goes on.
C9_EmptyCounter ==
    /\ empty_page_count \in 0..2
    /\ pc = "scrape" => empty_page_count < 2
    /\ (fetched # <<>> /\ DocumentWithArticles(fetched[Len(fetched)])) =>
          /\ empty_page_count = 0
          /\ pc = "scrape"
    /\ (fetched # <<>> /\ EmptyDocument(fetched[Len(fetched)])
          /\ (Len(fetched) = 1 \/ DocumentWithArticles(fetched[Len(fetched) - 1]))) =>
          /\ empty_page_count = 1
          /\ pc = "scrape"

\* C9 witness: an empty page lies between a page with listings and a page
\* whose only article gave no listing; the counter is back at 0 and the loop
\* goes on.
C9_Witness ==
    /\ Len(fetched) = 3
    /\ DocumentWithArticles(fetched[1])
    /\ EmptyDocument(fetched[2])
    /\ DocumentWithArticles(fetched[3])
    /\ ListingsOfPage(fetched[3]) = <<>>
    /\ empty_page_count = 0
    /\ pc = "scrape"

\* C10: the pages fetched are 1, 2, ..., k in this order, each once; while
\* the loop goes on the counter is one more than the number of pages fetched;
\* a run that stopped fetched at least page 1 and its counter names the last
\* page fetched.
C10_PagesInOrder ==
    /\ \A i \in DOMAIN fetched : fetched[i].page = i
    /\ pc = "scrape" => page = Len(fetched) + 1
    /\ Stopped => (Len(fetched) >= 1 /\ page = Len(fetched))

\* C10 witness: three pages were fetched and the loop goes on with page 4.
C10_Witness ==
    /\ Len(fetched) = 3
    /\ fetched[3].page = 3
    /\ pc = "scrape"
    /\ page = 4

====
